---- MODULE Spec2Model ----
(***************************************************************************)
(* Model of tubess.py: the land-recommendation scorer for Kota Bandung.    *)
(*                                                                         *)
(* Python strings are modelled as sequences of one-character strings, so   *)
(* that strip(), lower(), replace() and the substring test "x in s" are    *)
(* computed character by character.  The character U+2014 (em dash), which *)
(* occurs in two messages, is written as the one element "U+2014".         *)
(* Float scores are modelled as exact rationals <<num, den>> in lowest     *)
(* terms; the inputs drawn are integers, for which the float comparisons   *)
(* of the source (min == max, > 0.7, > 0.6, < 0.3, <= budget) agree with   *)
(* the exact ones.                                                         *)
(***************************************************************************)
EXTENDS Integers, Sequences, FiniteSets, TLC

VARIABLES
    catIn,      \* the cell handed to map_category
    catOut,     \* what map_category returned for it
    scoreIn,    \* the DataFrame handed to compute_scores
    scoreOut,   \* the outcome of that call
    insIn,      \* the row handed to analyze_advantages_disadvantages
    insOut,     \* the pair of lists it returned
    file,       \* the rows of locations.xlsx / locations.csv on disk
    readCache,  \* st.cache_data entry of read_locations()
    scoreCache, \* st.cache_data entries of compute_scores(df)
    pass        \* what the last run of main() showed

vars == <<catIn, catOut, scoreIn, scoreOut, insIn, insOut,
          file, readCache, scoreCache, pass>>

\* A call that has not been made yet / a cache with nothing in it.
None == [kind |-> "none"]

(***************************************************************************)
(* Strings                                                                 *)
(***************************************************************************)
UpperChars ==
    <<"A","B","C","D","E","F","G","H","I","J","K","L","M",
      "N","O","P","Q","R","S","T","U","V","W","X","Y","Z">>
LowerChars ==
    <<"a","b","c","d","e","f","g","h","i","j","k","l","m",
      "n","o","p","q","r","s","t","u","v","w","x","y","z">>

\* str.lower() on one character
LowerOf ==
    [c \in {UpperChars[i] : i \in 1..Len(UpperChars)} |->
        LowerChars[CHOOSE i \in 1..Len(UpperChars) : UpperChars[i] = c]]
LowerChar(c) == IF c \in DOMAIN LowerOf THEN LowerOf[c] ELSE c

\* str.lower()
Lower(s) == [i \in 1..Len(s) |-> LowerChar(s[i])]

\* the characters str.strip() removes
Whitespace == {" ", "\t", "\n", "\r"}

RECURSIVE LStrip(_)
LStrip(s) ==
    IF s # <<>> /\ Head(s) \in Whitespace THEN LStrip(Tail(s)) ELSE s

RECURSIVE RStrip(_)
RStrip(s) ==
    IF s # <<>> /\ s[Len(s)] \in Whitespace
    THEN RStrip(SubSeq(s, 1, Len(s) - 1))
    ELSE s

\* str.strip()
Strip(s) == RStrip(LStrip(s))

\* str.replace(c, "") for a one-character c
Remove(s, c) == SelectSeq(s, LAMBDA x : x # c)

\* the Python test "sub in s"
Contains(s, sub) ==
    \E i \in 0..(Len(s) - Len(sub)) : SubSeq(s, i + 1, i + Len(sub)) = sub

\* the Python test "x in list"
InList(x, list) == \E i \in 1..Len(list) : list[i] = x

(***************************************************************************)
(* Constants of the program                                                *)
(***************************************************************************)
Levels == {"low", "medium", "high"}

TokRendah == <<"r","e","n","d","a","h">>
TokSedang == <<"s","e","d","a","n","g">>
TokTinggi == <<"t","i","n","g","g","i">>
TokLow    == <<"l","o","w">>
TokMedium == <<"m","e","d","i","u","m">>
TokHigh   == <<"h","i","g","h">>

IND_TO_EN ==
    (TokRendah :> "low") @@ (TokSedang :> "medium") @@ (TokTinggi :> "high") @@
    (TokLow :> "low") @@ (TokMedium :> "medium") @@ (TokHigh :> "high")

\* "Harga sangat terjangkau dibanding lokasi lain."
MsgPriceStrong ==
    <<"H","a","r","g","a"," ","s","a","n","g","a","t"," ","t","e","r","j","a","n","g","k","a","u"," ","d","i","b","a","n","d","i","n","g"," ","l","o","k","a","s","i"," ","l","a","i","n",".">>
\* "Harga relatif murah dibanding kecamatan lain."
MsgPriceMild ==
    <<"H","a","r","g","a"," ","r","e","l","a","t","i","f"," ","m","u","r","a","h"," ","d","i","b","a","n","d","i","n","g"," ","k","e","c","a","m","a","t","a","n"," ","l","a","i","n",".">>
\* "Harga cenderung mahal."
MsgPriceHigh ==
    <<"H","a","r","g","a"," ","c","e","n","d","e","r","u","n","g"," ","m","a","h","a","l",".">>
\* "Area ini memiliki risiko banjir yang rendah."
MsgFloodLow ==
    <<"A","r","e","a"," ","i","n","i"," ","m","e","m","i","l","i","k","i"," ","r","i","s","i","k","o"," ","b","a","n","j","i","r"," ","y","a","n","g"," ","r","e","n","d","a","h",".">>
\* "Berpotensi terdampak banjir."
MsgFloodHigh ==
    <<"B","e","r","p","o","t","e","n","s","i"," ","t","e","r","d","a","m","p","a","k"," ","b","a","n","j","i","r",".">>
\* "Lingkungan sekitar tenang."
MsgCrowdLow ==
    <<"L","i","n","g","k","u","n","g","a","n"," ","s","e","k","i","t","a","r"," ","t","e","n","a","n","g",".">>
\* "Keramaian area sekitar tinggi U+2014 kurang nyaman."
MsgCrowdHigh ==
    <<"K","e","r","a","m","a","i","a","n"," ","a","r","e","a"," ","s","e","k","i","t","a","r"," ","t","i","n","g","g","i"," ","U+2014"," ","k","u","r","a","n","g"," ","n","y","a","m","a","n",".">>
\* "Dekat dengan fasilitas umum."
MsgProxHigh ==
    <<"D","e","k","a","t"," ","d","e","n","g","a","n"," ","f","a","s","i","l","i","t","a","s"," ","u","m","u","m",".">>
\* "Akses fasilitas umum terbatas."
MsgProxLow ==
    <<"A","k","s","e","s"," ","f","a","s","i","l","i","t","a","s"," ","u","m","u","m"," ","t","e","r","b","a","t","a","s",".">>
\* "RTH luas dan memadai."
MsgRthHigh ==
    <<"R","T","H"," ","l","u","a","s"," ","d","a","n"," ","m","e","m","a","d","a","i",".">>
\* "RTH rendah U+2014 potensi area padat."
MsgRthLow ==
    <<"R","T","H"," ","r","e","n","d","a","h"," ","U+2014"," ","p","o","t","e","n","s","i"," ","a","r","e","a"," ","p","a","d","a","t",".">>

\* LOCATION_INFO["arcamanik"]
KeyArcamanik ==
    <<"a","r","c","a","m","a","n","i","k">>
InfoArcamanik ==
    [kelebihan |-> <<
        <<"A","k","s","e","s"," ","j","a","l","a","n"," ","m","u","d","a","h">>,
        <<"H","a","r","g","a"," ","r","e","l","a","t","i","f"," ","t","e","r","j","a","n","g","k","a","u">>>>,
     kekurangan |-> <<
        <<"B","e","b","e","r","a","p","a"," ","t","i","t","i","k"," ","r","a","w","a","n"," ","b","a","n","j","i","r"," ","s","a","a","t"," ","h","u","j","a","n"," ","l","e","b","a","t">>>>]
\* LOCATION_INFO["rancasari"]
KeyRancasari ==
    <<"r","a","n","c","a","s","a","r","i">>
InfoRancasari ==
    [kelebihan |-> <<
        <<"L","i","n","g","k","u","n","g","a","n"," ","t","e","n","a","n","g">>,
        <<"D","e","k","a","t"," ","f","a","s","i","l","i","t","a","s"," ","u","m","u","m">>>>,
     kekurangan |-> <<
        <<"H","a","r","g","a"," ","s","e","d","i","k","i","t"," ","l","e","b","i","h"," ","t","i","n","g","g","i">>>>]
\* LOCATION_INFO["panyileukan"]
KeyPanyileukan ==
    <<"p","a","n","y","i","l","e","u","k","a","n">>
InfoPanyileukan ==
    [kelebihan |-> <<
        <<"L","i","n","g","k","u","n","g","a","n"," ","r","e","l","a","t","i","f"," ","t","e","n","a","n","g">>,
        <<"H","a","r","g","a"," ","k","o","m","p","e","t","i","t","i","f">>>>,
     kekurangan |-> <<
        <<"A","k","s","e","s"," ","k","e"," ","p","u","s","a","t"," ","k","o","t","a"," ","s","e","d","i","k","i","t"," ","l","e","b","i","h"," ","j","a","u","h">>>>]
\* LOCATION_INFO["mandalajati"]
KeyMandalajati ==
    <<"m","a","n","d","a","l","a","j","a","t","i">>
InfoMandalajati ==
    [kelebihan |-> <<
        <<"A","k","s","e","s"," ","t","r","a","n","s","p","o","r","t","a","s","i"," ","b","a","i","k">>,
        <<"B","a","n","y","a","k"," ","f","a","s","i","l","i","t","a","s"," ","s","e","k","i","t","a","r">>>>,
     kekurangan |-> <<
        <<"A","r","e","a"," ","p","a","d","a","t"," ","p","a","d","a"," ","j","a","m"," ","s","i","b","u","k">>>>]
\* LOCATION_INFO["cidadap"]
KeyCidadap ==
    <<"c","i","d","a","d","a","p">>
InfoCidadap ==
    [kelebihan |-> <<
        <<"U","d","a","r","a"," ","s","e","j","u","k",","," ","l","i","n","g","k","u","n","g","a","n"," ","h","i","j","a","u">>,
        <<"R","T","H"," ","l","u","a","s">>>>,
     kekurangan |-> <<
        <<"B","e","b","e","r","a","p","a"," ","a","r","e","a"," ","a","k","s","e","s","n","y","a"," ","t","i","d","a","k"," ","t","e","r","l","a","l","u"," ","c","e","p","a","t">>>>]

LOCATION_INFO ==
    (KeyArcamanik :> InfoArcamanik) @@ (KeyRancasari :> InfoRancasari) @@
    (KeyPanyileukan :> InfoPanyileukan) @@ (KeyMandalajati :> InfoMandalajati) @@
    (KeyCidadap :> InfoCidadap)

\* The three words that mark a knowledge-base entry as a price statement.
WordHarga == <<"h","a","r","g","a">>
WordMurah == <<"m","u","r","a","h">>
WordMahal == <<"m","a","h","a","l">>

(***************************************************************************)
(* Exact rationals <<num, den>>, den > 0, in lowest terms                  *)
(***************************************************************************)
RECURSIVE GCD(_, _)
GCD(a, b) == IF b = 0 THEN a ELSE GCD(b, a % b)

Abs(x) == IF x < 0 THEN -x ELSE x

Rat(n, d) == LET g == GCD(Abs(n), d) IN <<n \div g, d \div g>>

RAdd(a, b) == Rat(a[1] * b[2] + b[1] * a[2], a[2] * b[2])
RMul(a, b) == Rat(a[1] * b[1], a[2] * b[2])
RLt(a, b) == a[1] * b[2] < b[1] * a[2]
RLe(a, b) == a[1] * b[2] <= b[1] * a[2]

Zero == <<0, 1>>
Half == <<1, 2>>
One  == <<1, 1>>

WEIGHTS ==
    [price |-> Rat(40, 100), flood |-> Rat(30, 100), crowd |-> Rat(15, 100),
     prox |-> Rat(10, 100), rth |-> Rat(5, 100)]

FLOOD_MAP == [low |-> One, medium |-> Half, high |-> Zero]
CROWD_MAP == [low |-> Zero, medium |-> Half, high |-> One]
PROX_MAP  == [low |-> Zero, medium |-> Half, high |-> One]

RTH_THRESHOLD_HIGH == 25
RTH_THRESHOLD_LOW == 15
MIN_LUAS == 20

(***************************************************************************)
(* read_locations: the category normalizer                                 *)
(***************************************************************************)
\* A cell of the table: missing (pd.isna) or a value with its str() text.
NaCell == [na |-> TRUE, text |-> <<>>]
TextCell(t) == [na |-> FALSE, text |-> t]

\* map_category without the strip(): a label with blanks around it is unknown
map_category_nostrip(val) ==
    IF val.na THEN "medium"
    ELSE LET v == Lower(val.text)
         IN  IF v \in DOMAIN IND_TO_EN THEN IND_TO_EN[v] ELSE "medium"

map_category(val) ==
    IF val.na THEN "medium"
    ELSE LET v == Lower(Strip(val.text))
         IN  IF v \in DOMAIN IND_TO_EN THEN IND_TO_EN[v] ELSE "medium"

(***************************************************************************)
(* read_locations: numeric columns and the processed table                 *)
(***************************************************************************)
\* A numeric cell: whether pd.to_numeric can parse it, and to what.
NumCell(n) == [parses |-> TRUE, val |-> n]
\* A cell pd.to_numeric cannot parse (text, or missing): errors="coerce"
\* turns it into NaN whatever it holds.
BadCell == [parses |-> FALSE, val |-> 99]

\* pd.to_numeric(col, errors="coerce").fillna(0) on one cell
to_numeric_fillna0(cell) == IF cell.parses THEN cell.val ELSE 0

\* The part of read_locations after the file is loaded: one processed row
\* per raw row, carrying the RangeIndex label idx of the row.
process_rows(raw) ==
    [i \in 1..Len(raw) |->
        LET million == to_numeric_fillna0(raw[i].price_per_m2)
        IN  [idx |-> i - 1,
             name |-> raw[i].name,
             flood_risk |-> map_category(raw[i].flood_risk),
             crowd_level |-> map_category(raw[i].crowd_level),
             proximity_public |-> map_category(raw[i].proximity_public),
             price_per_m2_million |-> million,
             price_per_m2 |-> million * 1000000,
             rth_percent |-> to_numeric_fillna0(raw[i].rth_percent)]]

(***************************************************************************)
(* Scoring                                                                 *)
(***************************************************************************)
\* ndarray.min() / ndarray.max() of a non-empty column
ColMin(df, col) ==
    CHOOSE m \in {df[i][col] : i \in 1..Len(df)} :
        \A i \in 1..Len(df) : m <= df[i][col]
ColMax(df, col) ==
    CHOOSE m \in {df[i][col] : i \in 1..Len(df)} :
        \A i \in 1..Len(df) : m >= df[i][col]

\* normalize_price_scores with the equal-prices case returning zeros
normalize_price_scores_zeros(df) ==
    LET mn == ColMin(df, "price_per_m2")
        mx == ColMax(df, "price_per_m2")
    IN  IF mn = mx
        THEN [i \in 1..Len(df) |-> Zero]
        ELSE [i \in 1..Len(df) |-> Rat(mx - df[i].price_per_m2, mx - mn)]

normalize_price_scores(df) ==
    LET mn == ColMin(df, "price_per_m2")
        mx == ColMax(df, "price_per_m2")
    IN  IF mn = mx
        THEN [i \in 1..Len(df) |-> One]
        ELSE [i \in 1..Len(df) |-> Rat(mx - df[i].price_per_m2, mx - mn)]

\* Series.map(M).fillna(0.5) on one value
map_fillna_half(M, v) == IF v \in DOMAIN M THEN M[v] ELSE Half

\* the green-space normalisation of compute_scores
rth_scores(df) ==
    LET mn == ColMin(df, "rth_percent")
        mx == ColMax(df, "rth_percent")
    IN  IF mx # mn
        THEN [i \in 1..Len(df) |-> Rat(df[i].rth_percent - mn, mx - mn)]
        ELSE [i \in 1..Len(df) |-> One]

\* the weighted sum without the green-space term's weight (0.05 read as 0.5)
final_score_heavy(ps, fs, cs, xs, rs) ==
    RAdd(RAdd(RAdd(RAdd(RMul(WEIGHTS.price, ps), RMul(WEIGHTS.flood, fs)),
                   RMul(WEIGHTS.crowd, cs)),
              RMul(WEIGHTS.prox, xs)),
         RMul(Half, rs))

\* the weighted sum of compute_scores
final_score(ps, fs, cs, xs, rs) ==
    RAdd(RAdd(RAdd(RAdd(RMul(WEIGHTS.price, ps), RMul(WEIGHTS.flood, fs)),
                   RMul(WEIGHTS.crowd, cs)),
              RMul(WEIGHTS.prox, xs)),
         RMul(WEIGHTS.rth, rs))

\* df2 of compute_scores before it is sorted: df with the six score columns
score_columns(df) ==
    LET price_scores == normalize_price_scores(df)
        rths == rth_scores(df)
    IN  [i \in 1..Len(df) |->
            LET fs == map_fillna_half(FLOOD_MAP, df[i].flood_risk)
                cs == map_fillna_half(CROWD_MAP, df[i].crowd_level)
                xs == map_fillna_half(PROX_MAP, df[i].proximity_public)
            IN  [idx |-> df[i].idx,
                 name |-> df[i].name,
                 flood_risk |-> df[i].flood_risk,
                 crowd_level |-> df[i].crowd_level,
                 proximity_public |-> df[i].proximity_public,
                 price_per_m2_million |-> df[i].price_per_m2_million,
                 price_per_m2 |-> df[i].price_per_m2,
                 rth_percent |-> df[i].rth_percent,
                 score |-> final_score(price_scores[i], fs, cs, xs, rths[i]),
                 price_score |-> price_scores[i],
                 flood_score |-> fs,
                 crowd_score |-> cs,
                 prox_score |-> xs,
                 rth_score |-> rths[i]]]

\* the ways to lay n rows out
Orders(n) == Permutations(1..n)

\* sort_values("score", ascending=False).  The call names no kind, so pandas
\* sorts with its default, quicksort, which is not a stable sort: rows of
\* equal score come out in an order the numpy build decides.  Every table
\* that holds the rows in non-increasing score is a possible outcome.
sort_values(tbl) ==
    {[i \in 1..Len(tbl) |-> tbl[p[i]]] :
        p \in {q \in Orders(Len(tbl)) :
                 \A i, j \in 1..Len(tbl) :
                    i < j => RLe(tbl[q[j]].score, tbl[q[i]].score)}}

\* compute_scores that takes an empty table for scored
compute_scores_noraise(df) ==
    IF Len(df) = 0
    THEN {[status |-> "ok", table |-> <<>>]}
    ELSE {[status |-> "ok", table |-> t] : t \in sort_values(score_columns(df))}

\* compute_scores: the outcomes of one call.  On an empty table
\* prices.min() raises ValueError (a reduction of a zero-size array) and
\* nothing is returned.
compute_scores(df) ==
    IF Len(df) = 0
    THEN {[status |-> "ValueError", table |-> <<>>]}
    ELSE {[status |-> "ok", table |-> t] : t \in sort_values(score_columns(df))}

(***************************************************************************)
(* analyze_advantages_disadvantages                                        *)
(***************************************************************************)
PRICE_SCORE_STRONG == Rat(7, 10)
PRICE_SCORE_THRESHOLD == Rat(6, 10)
PRICE_SCORE_LOW == Rat(3, 10)

\* the price rule with a single threshold: everything above 0.6 is "strong"
\* and everything else below 0.6 is "expensive"
price_rule_coarse(price_score) ==
    IF RLt(PRICE_SCORE_THRESHOLD, price_score)
    THEN [adv |-> <<MsgPriceStrong>>, dis |-> <<>>]
    ELSE IF RLt(price_score, PRICE_SCORE_THRESHOLD)
    THEN [adv |-> <<>>, dis |-> <<MsgPriceHigh>>]
    ELSE [adv |-> <<>>, dis |-> <<>>]

\* the if / elif / elif on price_score
price_rule(price_score) ==
    IF RLt(PRICE_SCORE_STRONG, price_score)
    THEN [adv |-> <<MsgPriceStrong>>, dis |-> <<>>]
    ELSE IF RLt(PRICE_SCORE_THRESHOLD, price_score)
    THEN [adv |-> <<MsgPriceMild>>, dis |-> <<>>]
    ELSE IF RLt(price_score, PRICE_SCORE_LOW)
    THEN [adv |-> <<>>, dis |-> <<MsgPriceHigh>>]
    ELSE [adv |-> <<>>, dis |-> <<>>]

\* the if / elif on a category: one message, on one of the two lists, or none
level_rule(level, advLevel, advMsg, disLevel, disMsg) ==
    IF level = advLevel THEN [adv |-> <<advMsg>>, dis |-> <<>>]
    ELSE IF level = disLevel THEN [adv |-> <<>>, dis |-> <<disMsg>>]
    ELSE [adv |-> <<>>, dis |-> <<>>]

\* the if / elif on rth_percent
rth_rule(rth_percent) ==
    IF rth_percent >= RTH_THRESHOLD_HIGH
    THEN [adv |-> <<MsgRthHigh>>, dis |-> <<>>]
    ELSE IF rth_percent < RTH_THRESHOLD_LOW
    THEN [adv |-> <<>>, dis |-> <<MsgRthLow>>]
    ELSE [adv |-> <<>>, dis |-> <<>>]

\* the price test of the merge, on the text as written (no lower())
is_price_text_cased(s) ==
    \/ Contains(s, WordHarga)
    \/ Contains(s, WordMurah)
    \/ Contains(s, WordMahal)

\* "harga" in s.lower() or "murah" in s.lower() or "mahal" in s.lower()
is_price_text(s) ==
    \/ Contains(Lower(s), WordHarga)
    \/ Contains(Lower(s), WordMurah)
    \/ Contains(Lower(s), WordMahal)

\* one of the two for loops over a knowledge-base list
RECURSIVE merge_info(_, _)
merge_info(list, entries) ==
    IF entries = <<>> THEN list
    ELSE LET e == Head(entries)
         IN  IF is_price_text(e) THEN merge_info(list, Tail(entries))
             ELSE IF ~InList(e, list)
                  THEN merge_info(Append(list, e), Tail(entries))
                  ELSE merge_info(list, Tail(entries))

\* row["name"].strip().lower().replace(" ", "").replace("-", "")
location_key(name) == Remove(Remove(Lower(Strip(name)), " "), "-")

analyze_advantages_disadvantages(row) ==
    LET price == price_rule(row.price_score)
        flood == level_rule(row.flood_risk, "low", MsgFloodLow,
                            "high", MsgFloodHigh)
        crowd == level_rule(row.crowd_level, "low", MsgCrowdLow,
                            "high", MsgCrowdHigh)
        prox  == level_rule(row.proximity_public, "high", MsgProxHigh,
                            "low", MsgProxLow)
        rth   == rth_rule(row.rth_percent)
        advantages == price.adv \o flood.adv \o crowd.adv \o prox.adv \o rth.adv
        disadvantages ==
            price.dis \o flood.dis \o crowd.dis \o prox.dis \o rth.dis
        key == location_key(row.name)
    IN  IF key \in DOMAIN LOCATION_INFO
        THEN [advantages |->
                  merge_info(advantages, LOCATION_INFO[key].kelebihan),
              disadvantages |->
                  merge_info(disadvantages, LOCATION_INFO[key].kekurangan)]
        ELSE [advantages |-> advantages, disadvantages |-> disadvantages]

(***************************************************************************)
(* main(): one run of the Streamlit script                                 *)
(***************************************************************************)
\* read_locations() under @st.cache_data.  The call has no arguments, so the
\* cache key never changes: once an entry exists it is what is returned.
read_locations(cache, rows) ==
    IF cache = None THEN process_rows(rows) ELSE cache.df

\* compute_scores(df) under @st.cache_data, keyed by the content of df: the
\* tables one call may return.
cached_compute_scores(cache, df) ==
    IF \E e \in cache : e.df = df
    THEN {[status |-> "ok", table |-> e.table] : e \in {c \in cache : c.df = df}}
    ELSE compute_scores(df)

\* scored["total_price"] = scored["price_per_m2"] * luas
with_total_price(scored, luas) ==
    [i \in 1..Len(scored) |->
        scored[i] @@ [total_price |-> scored[i].price_per_m2 * luas]]

\* the filter with a strict comparison
affordable_rows_strict(scored, budget) ==
    SelectSeq(scored, LAMBDA r : r.total_price < budget)

\* scored[scored["total_price"] <= budget]
affordable_rows(scored, budget) ==
    SelectSeq(scored, LAMBDA r : r.total_price <= budget)

\* DataFrame.head(k)
head(tbl, k) == SubSeq(tbl, 1, IF k < Len(tbl) THEN k ELSE Len(tbl))

\* the steps of the button's branch that follow the filter when it is empty
steps_after_empty_continue == <<"st.error", "topk", "insight", "chart">>

steps_after_empty == <<"st.error", "st.stop">>

\* the steps of the button's branch that follow a non-empty filter
steps_after_found == <<"topk", "table", "insight", "chart", "st.success">>

\* the body of "if st.button(...)" for a table that compute_scores returned
show_recommendations(df, scored0, budget, luas, k) ==
    LET scored == with_total_price(scored0, luas)
        affordable == affordable_rows(scored, budget)
        topk == head(affordable, k)
        top3 == head(topk, 3)
    IN  IF affordable = <<>>
        THEN [outcome |-> "EmptyResult", df |-> df, budget |-> budget,
              luas |-> luas, k |-> k, scored |-> scored,
              affordable |-> affordable, topk |-> <<>>, insights |-> <<>>,
              steps |-> <<"compute_scores", "filter">> \o steps_after_empty]
        ELSE [outcome |-> "shown", df |-> df, budget |-> budget,
              luas |-> luas, k |-> k, scored |-> scored,
              affordable |-> affordable, topk |-> topk,
              insights |-> [i \in 1..Len(top3) |->
                               analyze_advantages_disadvantages(top3[i])],
              steps |-> <<"compute_scores", "filter">> \o steps_after_found]

\* what a run shows when it ends before the button's branch
no_result(outcome, df) ==
    [outcome |-> outcome, df |-> df, budget |-> 0, luas |-> 0, k |-> 0,
     scored |-> <<>>, affordable |-> <<>>, topk |-> <<>>, insights |-> <<>>,
     steps |-> <<>>]

(***************************************************************************)
(* Bounds and the inputs drawn                                             *)
(***************************************************************************)
\* the most rows a table holds
MaxRows == 3
\* price scores drawn for the insight generator are k / ScoreDen
ScoreDen == 20

\* str.upper() on one character, to write the inputs in other letter cases
UpperOf ==
    [c \in {LowerChars[i] : i \in 1..Len(LowerChars)} |->
        UpperChars[CHOOSE i \in 1..Len(LowerChars) : LowerChars[i] = c]]
UpperChar(c) == IF c \in DOMAIN UpperOf THEN UpperOf[c] ELSE c
Upper(s) == [i \in 1..Len(s) |-> UpperChar(s[i])]
Capitalized(s) == [i \in 1..Len(s) |-> IF i = 1 THEN UpperChar(s[i]) ELSE s[i]]
Alternating(s) ==
    [i \in 1..Len(s) |-> IF i % 2 = 0 THEN UpperChar(s[i]) ELSE s[i]]
CaseVariants(s) == {s, Upper(s), Capitalized(s), Alternating(s)}

KnownTokens == DOMAIN IND_TO_EN
\* labels the vocabulary does not hold: empty, a number, near misses
UnknownTokens ==
    {<<>>, <<"1">>, <<"x","y","z">>, <<"l","o","w","s">>, <<"l","o"," ","w">>,
     <<"n","/","a">>, <<"h","i","g","h","-">>, <<"s","e","d","a","n">>}
Pads == {<<>>, <<" ">>, <<"\t">>, <<" ", "\n">>}

\* a token in some letter case with blanks around it
Dressed(tok) ==
    {l \o v \o r : l \in Pads, r \in Pads, v \in CaseVariants(tok)}

CategoryCells ==
    {NaCell} \cup
    {TextCell(t) : t \in UNION {Dressed(tok) : tok \in KnownTokens \cup UnknownTokens}}

\* raw rows of the scoring passes: three prices (one unparseable), two
\* green-space values (one unparseable) and three triples of labels
\* (flood, crowd, proximity): the one scoring 1 on all three, the one that
\* is defaulted on all three, the one scoring 0 on all three
PriceCells == {BadCell, NumCell(1), NumCell(3)}
RthCells == {BadCell, NumCell(30)}
LabelTriples ==
    {<<TextCell(TokRendah), TextCell(<<" ">> \o Capitalized(TokHigh) \o <<" ">>),
       TextCell(Upper(TokTinggi))>>,
     <<NaCell, TextCell(<<"x","y","z">>), TextCell(<<>>)>>,
     <<TextCell(TokTinggi), TextCell(TokLow), TextCell(Capitalized(TokLow) \o <<" ">>)>>}
NameLokasi == <<"L","o","k","a","s","i">>

RawRow(name, price, labels, rth) ==
    [name |-> name, price_per_m2 |-> price, flood_risk |-> labels[1],
     crowd_level |-> labels[2], proximity_public |-> labels[3],
     rth_percent |-> rth]

ScoreRows ==
    {RawRow(NameLokasi, p, l, r) :
        p \in PriceCells, l \in LabelTriples, r \in RthCells}

\* the tables of at most MaxRows rows over a set of rows
Tables(rows) == UNION {[1..n -> rows] : n \in 0..MaxRows}

(***************************************************************************)
(* SpecCat: calls of map_category                                          *)
(***************************************************************************)
IdleCat == catIn = None /\ catOut = None
IdleScore == scoreIn = None /\ scoreOut = None
IdleIns == insIn = None /\ insOut = None
IdleApp ==
    file = <<>> /\ readCache = None /\ scoreCache = {} /\ pass = None

InitCat ==
    /\ catIn \in CategoryCells
    /\ catOut = None
    /\ IdleScore /\ IdleIns /\ IdleApp

MapCategory ==
    /\ catOut = None
    /\ catOut' = [kind |-> "returned", value |-> map_category(catIn)]
    /\ UNCHANGED <<catIn, scoreIn, scoreOut, insIn, insOut,
                   file, readCache, scoreCache, pass>>

NextCat == MapCategory

SpecCat == InitCat /\ [][NextCat]_vars

(***************************************************************************)
(* SpecScore: scoring passes over a table read by read_locations           *)
(***************************************************************************)
InitScore ==
    /\ scoreIn \in Tables(ScoreRows)
    /\ scoreOut = None
    /\ IdleCat /\ IdleIns /\ IdleApp

\* read_locations' processing of the rows, then compute_scores
ScorePass ==
    /\ scoreOut = None
    /\ LET df == process_rows(scoreIn)
       IN  \E o \in compute_scores(df) :
              scoreOut' = [kind |-> "done", status |-> o.status, df |-> df,
                           table |-> o.table]
    /\ UNCHANGED <<catIn, catOut, scoreIn, insIn, insOut,
                   file, readCache, scoreCache, pass>>

NextScore == ScorePass

SpecScore == InitScore /\ [][NextScore]_vars

(***************************************************************************)
(* SpecInsight: calls of analyze_advantages_disadvantages                  *)
(***************************************************************************)
\* names as a table may spell them: four that the knowledge base holds
\* under their key, one it does not hold, and the empty name
NameArcamanik == Capitalized(KeyArcamanik)
NameRancaSari ==
    <<" ">> \o Capitalized(SubSeq(KeyRancasari, 1, 5)) \o <<" ">> \o
    Capitalized(SubSeq(KeyRancasari, 6, 9)) \o <<" ">>
NamePanyileukan == Upper(KeyPanyileukan)
NameMandalaJati ==
    Capitalized(SubSeq(KeyMandalajati, 1, 7)) \o <<"-">> \o
    Capitalized(SubSeq(KeyMandalajati, 8, 11))
NameCidadap == KeyCidadap
NameAntapani == <<"A","n","t","a","p","a","n","i">>
NameInputs ==
    {NameArcamanik, NameRancaSari, NamePanyileukan, NameMandalaJati,
     NameCidadap, NameAntapani, <<>>}

\* green-space percentages on both sides of the two thresholds
RthInputs == {14, 15, 24, 25}

InsightRows ==
    {[name |-> n, price_score |-> Rat(k, ScoreDen), flood_risk |-> f,
      crowd_level |-> c, proximity_public |-> x, rth_percent |-> r] :
        n \in NameInputs, k \in 0..ScoreDen, f \in Levels, c \in Levels,
        x \in Levels, r \in RthInputs}

InitInsight ==
    /\ insIn \in InsightRows
    /\ insOut = None
    /\ IdleCat /\ IdleScore /\ IdleApp

Analyze ==
    /\ insOut = None
    /\ LET r == analyze_advantages_disadvantages(insIn)
       IN  insOut' = [kind |-> "returned", advantages |-> r.advantages,
                      disadvantages |-> r.disadvantages]
    /\ UNCHANGED <<catIn, catOut, scoreIn, scoreOut, insIn,
                   file, readCache, scoreCache, pass>>

NextInsight == Analyze

SpecInsight == InitInsight /\ [][NextInsight]_vars

(***************************************************************************)
(* Spec: the application, its data file and its two caches                 *)
(***************************************************************************)
\* the rows a data file is made of: a location the knowledge base knows,
\* cheap and crowded; one it knows, dear and quiet; one it does not know,
\* whose numbers do not parse and whose labels are defaulted
RowArcamanik ==
    RawRow(NameArcamanik, NumCell(4),
           <<TextCell(TokRendah),
             TextCell(<<" ">> \o Capitalized(TokTinggi) \o <<" ">>),
             TextCell(TokHigh)>>,
           NumCell(10))
RowCidadap ==
    RawRow(NameCidadap, NumCell(5),
           <<TextCell(Upper(TokTinggi)), TextCell(TokLow),
             TextCell(TokRendah)>>,
           NumCell(30))
RowAntapani ==
    RawRow(NameAntapani, BadCell,
           <<NaCell, TextCell(<<"x","y","z">>), TextCell(TokSedang)>>,
           BadCell)

\* the data files: with no row, with one row, with two, with two rows that
\* tie, with a row that does not parse, with more rows than the three shown
Files ==
    {<<>>,
     <<RowCidadap>>,
     <<RowArcamanik, RowCidadap>>,
     <<RowCidadap, RowArcamanik, RowArcamanik>>,
     <<RowAntapani, RowArcamanik, RowCidadap>>,
     <<RowArcamanik, RowCidadap, RowAntapani, RowCidadap>>}

\* budgets in tenths of a miliar (the widget's step) and areas in m2 (from
\* MIN_LUAS in steps of 5)
BudgetTenths == {1, 2}
LuasInputs == {MIN_LUAS, MIN_LUAS + 5, MIN_LUAS + 30}

Init ==
    /\ file \in Files
    /\ readCache = None
    /\ scoreCache = {}
    /\ pass = no_result("idle", <<>>)
    /\ IdleCat /\ IdleScore /\ IdleIns

\* the data file is replaced on disk
EditFile ==
    /\ \E f \in Files : f # file /\ file' = f
    /\ UNCHANGED <<catIn, catOut, scoreIn, scoreOut, insIn, insOut,
                   readCache, scoreCache, pass>>

\* st.cache_data is cleared (the menu's "Clear cache", or a restart)
ClearCache ==
    /\ readCache # None
    /\ readCache' = None
    /\ scoreCache' = {}
    /\ UNCHANGED <<catIn, catOut, scoreIn, scoreOut, insIn, insOut,
                   file, pass>>

\* A run of main() in which the button is not pressed: the inputs are drawn
\* and the data loaded.  With no row, number_input(min_value=1, max_value=0,
\* value=0) raises and the run ends there.
Rerun ==
    /\ LET df == read_locations(readCache, file)
       IN  /\ readCache' = [kind |-> "df", df |-> df]
           /\ pass' = IF Len(df) = 0
                      THEN no_result("StreamlitAPIException", df)
                      ELSE no_result("loaded", df)
    /\ UNCHANGED <<catIn, catOut, scoreIn, scoreOut, insIn, insOut,
                   file, scoreCache>>

\* A run of main() in which the button is pressed, with the three inputs.
Recommend ==
    /\ LET df == read_locations(readCache, file)
       IN  /\ Len(df) > 0
           /\ readCache' = [kind |-> "df", df |-> df]
           /\ \E t \in BudgetTenths, luas \in LuasInputs, k \in 1..Len(df) :
              \E o \in cached_compute_scores(scoreCache, df) :
                 IF o.status = "ok"
                 THEN /\ scoreCache' =
                            scoreCache \cup {[df |-> df, table |-> o.table]}
                      /\ pass' = show_recommendations(
                                     df, o.table, t * 100000000, luas, k)
                 ELSE /\ scoreCache' = scoreCache
                      /\ pass' = no_result(o.status, df)
    /\ UNCHANGED <<catIn, catOut, scoreIn, scoreOut, insIn, insOut, file>>

Next == EditFile \/ ClearCache \/ Rerun \/ Recommend

Spec == Init /\ [][Next]_vars

(***************************************************************************)
(* Properties                                                              *)
(***************************************************************************)
In01(r) == r[1] >= 0 /\ r[1] <= r[2]
NoDup(list) == \A i, j \in 1..Len(list) : i # j => list[i] # list[j]
ScoreDone == scoreOut # None
ScoreOk == ScoreDone /\ scoreOut.status = "ok"

\* C1: for every non-empty table, rows with a coerced price or green-space
\* value and defaulted labels included, compute_scores returns a row per
\* record, and the final score and the five criterion scores of every row
\* lie in [0, 1].
C1_ScoresInUnitInterval ==
    (ScoreDone /\ Len(scoreIn) > 0) =>
        /\ scoreOut.status = "ok"
        /\ Len(scoreOut.table) = Len(scoreIn)
        /\ \A i \in 1..Len(scoreOut.table) :
              LET r == scoreOut.table[i]
              IN  /\ In01(r.score)
                  /\ In01(r.price_score) /\ In01(r.flood_score)
                  /\ In01(r.crowd_score) /\ In01(r.prox_score)
                  /\ In01(r.rth_score)

\* C1 witness: a scored table with a row whose price and green-space value
\* did not parse and whose labels were defaulted, in which one row reaches
\* the final score 1 and another the final score 0.
C1_Witness ==
    /\ ScoreOk
    /\ \E i \in 1..Len(scoreIn) :
          /\ ~scoreIn[i].price_per_m2.parses
          /\ ~scoreIn[i].rth_percent.parses
          /\ scoreIn[i].flood_risk.na
    /\ \E i, j \in 1..Len(scoreOut.table) :
          /\ scoreOut.table[i].score = One
          /\ scoreOut.table[j].score = Zero

\* C2: the table compute_scores returns is a permutation of the input rows
\* in non-increasing final score, and rows of equal final score keep their
\* input order.
C2_SortedStable ==
    ScoreOk =>
        LET t == scoreOut.table
            df == scoreOut.df
        IN  /\ Len(t) = Len(df)
            /\ {t[i].idx : i \in 1..Len(t)} = {df[i].idx : i \in 1..Len(df)}
            /\ \A i, j \in 1..Len(t) :
                  i < j =>
                     /\ t[j].score[1] * t[i].score[2]
                           <= t[i].score[1] * t[j].score[2]
                     /\ t[i].score = t[j].score => t[i].idx < t[j].idx

\* C4: on an empty table the scoring pass fails with an invalid-input error
\* (Python's ValueError) and returns no table; on every non-empty table it
\* returns without error.
C4_EmptyInputFails ==
    ScoreDone =>
        /\ Len(scoreIn) = 0 =>
              scoreOut.status = "ValueError" /\ scoreOut.table = <<>>
        /\ Len(scoreIn) > 0 => scoreOut.status = "ok"

\* C4 witness: the pass over the empty table has ended in the error.
C4_Witness ==
    ScoreDone /\ Len(scoreIn) = 0 /\ scoreOut.status = "ValueError"

\* C7: when all prices are equal every price score is 1, otherwise the
\* price score is (max - price) / (max - min), so 1 for the cheapest row and
\* 0 for the dearest; when all green-space values are equal every
\* green-space score is 1, otherwise it is (value - min) / (max - min).
C7_MinMaxNormalisation ==
    ScoreOk =>
        LET t == scoreOut.table
            N == 1..Len(t)
            PriceLo(i) == \A j \in N : t[i].price_per_m2 <= t[j].price_per_m2
            PriceHi(i) == \A j \in N : t[i].price_per_m2 >= t[j].price_per_m2
            RthLo(i) == \A j \in N : t[i].rth_percent <= t[j].rth_percent
            RthHi(i) == \A j \in N : t[i].rth_percent >= t[j].rth_percent
        IN  \A i, lo, hi \in N :
               /\ (PriceLo(lo) /\ PriceHi(hi)) =>
                     IF t[lo].price_per_m2 = t[hi].price_per_m2
                     THEN t[i].price_score = One
                     ELSE /\ t[i].price_score[1]
                                * (t[hi].price_per_m2 - t[lo].price_per_m2)
                             = t[i].price_score[2]
                                * (t[hi].price_per_m2 - t[i].price_per_m2)
                          /\ t[lo].price_score = One
                          /\ t[hi].price_score = Zero
               /\ (RthLo(lo) /\ RthHi(hi)) =>
                     IF t[lo].rth_percent = t[hi].rth_percent
                     THEN t[i].rth_score = One
                     ELSE t[i].rth_score[1]
                             * (t[hi].rth_percent - t[lo].rth_percent)
                          = t[i].rth_score[2]
                             * (t[i].rth_percent - t[lo].rth_percent)

\* C7 witness: a scored table with three different prices, whose middle row
\* scores strictly between 0 and 1, and with equal green-space values.
C7_Witness ==
    /\ ScoreOk
    /\ \E i \in 1..Len(scoreOut.table) :
          /\ scoreOut.table[i].price_score = <<2, 3>>
          /\ scoreOut.table[i].rth_score = One
    /\ \A i, j \in 1..Len(scoreOut.table) :
          scoreOut.table[i].rth_percent = scoreOut.table[j].rth_percent

PassFiltered == pass.outcome \in {"EmptyResult", "shown"}
\* the place of the row labelled idx in a table
PlaceOf(tbl, idx) == CHOOSE i \in 1..Len(tbl) : tbl[i].idx = idx

\* C3: the affordability filter keeps exactly the rows of the ranked table
\* with price_per_m2 * area <= budget, each once, in the order they have in
\* the ranked table.
C3_FilterExactAndOrdered ==
    PassFiltered =>
        LET s == pass.scored
            a == pass.affordable
            Within(r) == r.price_per_m2 * pass.luas <= pass.budget
        IN  /\ \A i \in 1..Len(a) :
                  Within(a[i]) /\ \E j \in 1..Len(s) : s[j] = a[i]
            /\ \A j \in 1..Len(s) :
                  Within(s[j]) => \E i \in 1..Len(a) : a[i].idx = s[j].idx
            /\ \A i, j \in 1..Len(a) :
                  i < j => PlaceOf(s, a[i].idx) < PlaceOf(s, a[j].idx)

\* C3 witness: a pass that kept two rows, one of them priced exactly at the
\* budget, and dropped a row above the budget.
C3_Witness ==
    /\ PassFiltered
    /\ Len(pass.affordable) >= 2
    /\ Len(pass.affordable) < Len(pass.scored)
    /\ \E i \in 1..Len(pass.affordable) :
          pass.affordable[i].price_per_m2 * pass.luas = pass.budget

\* C5: a pass in which no row is within budget ends in EmptyResult, shown by
\* st.error, and runs no top-K, insight or chart step; a pass in which some
\* row is within budget never reports EmptyResult.
C5_EmptyResultStopsPass ==
    PassFiltered =>
        LET Qualifies ==
                \E i \in 1..Len(pass.scored) :
                    pass.scored[i].price_per_m2 * pass.luas <= pass.budget
        IN  /\ ~Qualifies =>
                  /\ pass.outcome = "EmptyResult"
                  /\ InList("st.error", pass.steps)
                  /\ ~InList("topk", pass.steps)
                  /\ ~InList("insight", pass.steps)
                  /\ ~InList("chart", pass.steps)
                  /\ pass.topk = <<>> /\ pass.insights = <<>>
            /\ Qualifies =>
                  /\ pass.outcome = "shown"
                  /\ ~InList("st.error", pass.steps)

\* C5 witness: a pass over a scored table of which no row was within budget.
C5_Witness ==
    /\ pass.outcome = "EmptyResult"
    /\ Len(pass.scored) > 0
    /\ \A i \in 1..Len(pass.scored) : pass.scored[i].total_price > pass.budget

\* C6: the crowd score is 1 for low, 1/2 for medium and 0 for high, so a
\* location shown with the quiet-surroundings advantage has a crowd score
\* strictly above that of every location shown with the high-crowd
\* disadvantage.
C6_QuietScoresAboveCrowded ==
    pass.outcome = "shown" =>
        /\ \A i \in 1..Len(pass.topk) :
              pass.topk[i].crowd_score =
                  CASE pass.topk[i].crowd_level = "low" -> One
                    [] pass.topk[i].crowd_level = "medium" -> Half
                    [] pass.topk[i].crowd_level = "high" -> Zero
        /\ \A i, j \in 1..Len(pass.insights) :
              (/\ InList(MsgCrowdLow, pass.insights[i].advantages)
               /\ InList(MsgCrowdHigh, pass.insights[j].disadvantages))
              => pass.topk[j].crowd_score[1] * pass.topk[i].crowd_score[2]
                    < pass.topk[i].crowd_score[1] * pass.topk[j].crowd_score[2]

\* C8: map_category returns for every cell, and returns low, medium or high:
\* the six known labels, in any letter case and with blanks around them, give
\* their level, and every other cell (missing, empty, unknown) gives medium.
C8_NormalizerTotal ==
    catOut # None =>
        LET Known == {tok \in KnownTokens :
                         ~catIn.na /\ catIn.text \in Dressed(tok)}
            LevelOf(tok) ==
                CASE tok \in {TokLow, TokRendah} -> "low"
                  [] tok \in {TokMedium, TokSedang} -> "medium"
                  [] tok \in {TokHigh, TokTinggi} -> "high"
        IN  /\ catOut.kind = "returned"
            /\ catOut.value \in Levels
            /\ \A tok \in Known : catOut.value = LevelOf(tok)
            /\ Known = {} => catOut.value = "medium"

\* C8 witness: "TINGGI" with a tab before it and a blank and a line break
\* after it was mapped to high.
C8_Witness ==
    /\ catOut # None
    /\ catIn = TextCell(<<"\t">> \o Upper(TokTinggi) \o <<" ", "\n">>)
    /\ catOut.value = "high"

KbPriceEntries ==
    {InfoArcamanik.kelebihan[2], InfoRancasari.kekurangan[1],
     InfoPanyileukan.kelebihan[2]}
PriceMessages == {MsgPriceStrong, MsgPriceMild, MsgPriceHigh}

\* C9: for every scored location, known to the knowledge base or not,
\* neither list holds a string twice and neither holds a knowledge-base
\* entry that speaks of the price (harga, murah, mahal).
C9_NoDuplicateNoKbPrice ==
    insOut # None =>
        /\ NoDup(insOut.advantages)
        /\ NoDup(insOut.disadvantages)
        /\ \A e \in KbPriceEntries :
              ~InList(e, insOut.advantages) /\ ~InList(e, insOut.disadvantages)

\* C9 witness: for Arcamanik, whose knowledge-base advantages are one about
\* access and one about the price, the first was merged behind a rule-derived
\* price statement.
C9_Witness ==
    /\ insOut # None
    /\ insIn.name = NameArcamanik
    /\ insOut.advantages[1] = MsgPriceStrong
    /\ InList(InfoArcamanik.kelebihan[1], insOut.advantages)
    /\ InList(InfoArcamanik.kekurangan[1], insOut.disadvantages)

\* C10: at most one price statement is emitted: the strong one above 0.7,
\* the mild one above 0.6 and up to 0.7, the expensive one below 0.3, none
\* from 0.3 to 0.6 with both ends; the statement is the first of its list.
C10_PriceStatement ==
    insOut # None =>
        LET n == insIn.price_score[1]
            d == insIn.price_score[2]
            adv == insOut.advantages
            dis == insOut.disadvantages
            Places(list) == {i \in 1..Len(list) : list[i] \in PriceMessages}
        IN  /\ Cardinality(Places(adv)) + Cardinality(Places(dis)) <= 1
            /\ Places(adv) \subseteq {1} /\ Places(dis) \subseteq {1}
            /\ 10 * n > 7 * d => adv # <<>> /\ adv[1] = MsgPriceStrong
            /\ (10 * n > 6 * d /\ 10 * n <= 7 * d) =>
                  adv # <<>> /\ adv[1] = MsgPriceMild
            /\ 10 * n < 3 * d => dis # <<>> /\ dis[1] = MsgPriceHigh
            /\ (10 * n >= 3 * d /\ 10 * n <= 6 * d) =>
                  Places(adv) = {} /\ Places(dis) = {}

\* C10 witness: a location whose price score is exactly 0.6 got no price
\* statement although both lists are non-empty.
C10_Witness ==
    /\ insOut # None
    /\ insIn.price_score = <<3, 5>>
    /\ insOut.advantages # <<>> /\ insOut.disadvantages # <<>>
    /\ \A i \in 1..Len(insOut.advantages) :
          insOut.advantages[i] \notin PriceMessages
    /\ \A i \in 1..Len(insOut.disadvantages) :
          insOut.disadvantages[i] \notin PriceMessages

\* the pairs (rule-derived advantage, knowledge-base disadvantage) that speak
\* against each other about one criterion
AdvAgainstKbDis ==
    {<<MsgFloodLow, InfoArcamanik.kekurangan[1]>>,
     <<MsgCrowdLow, InfoMandalajati.kekurangan[1]>>,
     <<MsgProxHigh, InfoPanyileukan.kekurangan[1]>>}
\* the pairs (knowledge-base advantage, rule-derived disadvantage) that do
KbAdvAgainstDis ==
    {<<InfoRancasari.kelebihan[1], MsgCrowdHigh>>,
     <<InfoPanyileukan.kelebihan[1], MsgCrowdHigh>>,
     <<InfoRancasari.kelebihan[2], MsgProxLow>>,
     <<InfoCidadap.kelebihan[2], MsgRthLow>>}

\* C11: the insight returned for a location never holds a knowledge-base
\* entry together with the rule-derived statement it contradicts: not the
\* flood-prone disadvantage with the low-flood-risk advantage, not the quiet
\* or large-green-space advantage with the high-crowd or low-green-space
\* disadvantage.
C11_NoContradictingKbEntry ==
    insOut # None =>
        \A p \in AdvAgainstKbDis \cup KbAdvAgainstDis :
            ~(InList(p[1], insOut.advantages)
              /\ InList(p[2], insOut.disadvantages))

\* C12: every run of main() that shows something works on the record set as
\* the data file holds it at that run, never on a table read from an
\* earlier version of the file.
C12_PassUsesCurrentData ==
    [][pass' # pass => pass'.df = process_rows(file')]_vars

====
